---- MODULE Spec2Model ----
(***************************************************************************)
(* MongoDBSessionInterface (sanic_session/mongodb.py): a session store     *)
(* over one MongoDB collection of {sid, expiry, data} documents.           *)
(*                                                                         *)
(* The module models the interface's three coroutines (_get_value,         *)
(* _delete_key, _set_value), the after_server_start listener that creates  *)
(* the two indexes, and the part of the storage engine those calls rest    *)
(* on: find_one, delete_one, replace_one(upsert=True), create_index and    *)
(* the TTL monitor.  Every `await` is a point where other coroutines, the  *)
(* clock and the engine may run.                                           *)
(***************************************************************************)
EXTENDS Integers, Sequences, FiniteSets

\* ------------------------------------------------------------------ bounds
MaxTime   == 1      \* the clock runs over 0..MaxTime
MaxDocs   == 2      \* the collection holds at most MaxDocs documents
MaxRuns   == 2      \* the startup listener runs to completion at most MaxRuns times

Tasks == {"t1", "t2"}            \* coroutines in _set_value that may overlap
Keys  == {"k1", "k2"}            \* session ids
Data  == {"", "a"}               \* payloads; "" is the empty payload
None  == "None"                  \* Python's None

\* Values of __init__'s expiry argument (line 14; any int is accepted).
ExpiryArgs == {0, 1}

\* Values of __init__'s httponly argument (line 15), as Python objects:
\* True, False, None and the int 1 (equal to True, but not the same object).
HttponlyArgs == {"True", "False", "None", "1"}

\* Errors the storage engine may answer a request with.
Errors == {"AutoReconnect"}

\* The key the history variables follow.  The code only ever compares a key
\* for equality (the filters of lines 117, 121 and 126), so what is checked
\* of watch is checked of every key; the other keys are the traffic around
\* it.
watch == "k1"

\* Payloads written to key k: every payload for watch, one for the others.
Payloads(k) == IF k = watch THEN Data ELSE {"a"}

\* Coroutines that write key k: sets of watch may overlap; the traffic on
\* the other keys is one set at a time.
Writers(k) == IF k = watch THEN Tasks ELSE {"t1"}

\* Field names of the stored document (class attributes, lines 7-9).
sid_field    == "sid"
expiry_field == "expiry"
data_field   == "data"

VARIABLES
    self_expiry,   \* self.expiry: the TTL in seconds, fixed by __init__
    now,           \* datetime.utcnow(), in whole seconds
    coll,          \* the collection: documents in storage order
    indexes,       \* the collection's indexes: {[field, ttl, expireAfterSeconds]}
    hook,          \* position of the apply_session_indexes listener
    task,          \* per coroutine in _set_value: pc, arguments and locals
    got,           \* history: what _get_value(watch) returned since lastOp
    hist,          \* history, per coroutine: facts about its set on watch
    lastOp,        \* history: the last mutation of watch that took effect
    ctor,          \* __init__: its arguments, its position and what it has done
    runs,          \* how often the startup listener has run to completion
    raised         \* the exception the latest failed get, set or delete raised

vars == <<self_expiry, now, coll, indexes, hook, task, got, hist, lastOp,
          ctor, runs, raised>>

\* ------------------------------------------------------------- the engine
Doc(k, e, d) == [sid |-> k, expiry |-> e, data |-> d]

\* Positions of the documents that match the filter {sid: k}.
Matching(k) == {i \in 1..Len(coll) : coll[i].sid = k}

Min(S) == CHOOSE x \in S : \A y \in S : x <= y

\* find_one / replace_one / delete_one act on the first match in storage
\* order (documents with equal sid are scanned in the order of insertion,
\* with or without the sid index); 0 stands for "no document matches".
FirstMatch(k) == IF Matching(k) = {} THEN 0 ELSE Min(Matching(k))

RemoveAt(s, i) == SubSeq(s, 1, i - 1) \o SubSeq(s, i + 1, Len(s))

\* A variant of line 114 with a grace period the clock never covers.
ExpireAfterSecondsLate == MaxTime + 1

\* expireAfterSeconds of the TTL index the listener creates (line 114).
ExpireAfterSeconds == 0

SidIndex == [field |-> sid_field, ttl |-> FALSE, expireAfterSeconds |-> 0]
TTLIndex == [field |-> expiry_field, ttl |-> TRUE,
             expireAfterSeconds |-> ExpireAfterSeconds]

\* The TTL monitor removes a document once its indexed date plus the
\* index's expireAfterSeconds is not after the current time.
Reclaimable(doc) ==
    \E ix \in indexes : /\ ix.ttl
                        /\ ix.field = expiry_field
                        /\ doc.expiry + ix.expireAfterSeconds <= now

\* --------------------------------------------------------------- history
\* lastOp: op is "none", "set", "delete" or "reclaim".  For a set: doc is
\* the document it wrote, read the clock value line 124 read, matched
\* whether the engine replaced a document (TRUE) or inserted one (FALSE);
\* seq and overlap as in hist.
NoOp == [op |-> "none", doc |-> Doc("", 0, ""), read |-> 0,
         seq |-> FALSE, overlap |-> FALSE, matched |-> FALSE]

\* hist[t], for a set in flight: read is the clock value line 124 read.
\* For a set of watch: seq holds while the last mutation of watch that took
\* effect is a set that had completed when this one was called; overlap
\* holds once another set of watch has been in flight together with it.
NoHist == [read |-> 0, seq |-> FALSE, overlap |-> FALSE]

\* got: called tells whether _get_value(watch) has returned since the last
\* mutation of watch took effect, ret what the latest such call returned.
NoGot == [called |-> FALSE, ret |-> None]

IdleTask == [pc |-> "idle", key |-> "", data |-> "", expiry |-> 0]

\* Coroutines with a replace_one in flight on key k.
InFlight(k) == {t \in Tasks : task[t].pc # "idle" /\ task[t].key = k}

\* A mutation of watch took effect (by the set of coroutine `by`, or by a
\* delete or the TTL monitor when by = ""): the other sets in flight on
\* watch no longer directly follow the set they were called behind.
Disturb(by) ==
    [t \in Tasks |-> IF t = by THEN NoHist ELSE [hist[t] EXCEPT !.seq = FALSE]]

\* -------------------------------------------------------------- __init__
\* A variant of __init__ that imports sanic_motor only at its end.
CtorStepsLateImport == <<"warn", "super", "SessionModel", "listener", "import">>

\* The statements of __init__ that act on the interface or the app, in
\* source order: the import of sanic_motor (lines 54-58), the httponly
\* warning (77-83), super().__init__ (85-97), the assignment of
\* self.SessionModel (100) and the registration of the listener (102).
CtorSteps == <<"import", "warn", "super", "SessionModel", "listener">>

\* ctor at the call of __init__(httponly=h, expiry=e); motor tells whether
\* sanic_motor can be imported.  base is the httponly value the base
\* interface was initialised with, model whether self.SessionModel is
\* assigned, error the exception __init__ raised.
NewCtor(h, e, m) ==
    [step |-> 1, state |-> "running", httponly |-> h, expiry |-> e, motor |-> m,
     warned |-> FALSE, base |-> "unset", model |-> FALSE, error |-> ""]

\* The statement at c.step is done; after the last one __init__ returns.
Advance(c) ==
    [c EXCEPT !.step = @ + 1,
              !.state = IF c.step = Len(CtorSteps) THEN "done" ELSE "running"]

\* Lines 55-58: an ImportError is answered with a RuntimeError.
ImportFailed(c) == [c EXCEPT !.state = "raised", !.error = "RuntimeError"]

\* Line 77: `httponly is not True` is an identity test.
Warns(h) == h # "True"

\* A variant of line 93 that forwards the caller's value (httponly=httponly).
BaseHttponlyAsGiven(h) == h

\* Line 93: super().__init__(..., httponly=True, ...)
BaseHttponly(h) == "True"

\* One statement of __init__.
init_step ==
    /\ ctor.state = "running"
    /\ LET s == CtorSteps[ctor.step] IN
         /\ ctor' = CASE s = "import" ->
                           IF ctor.motor THEN Advance(ctor) ELSE ImportFailed(ctor)
                      [] s = "warn" ->
                           Advance([ctor EXCEPT !.warned = Warns(ctor.httponly)])
                      [] s = "super" ->
                           Advance([ctor EXCEPT !.base = BaseHttponly(ctor.httponly)])
                      [] s = "SessionModel" ->
                           Advance([ctor EXCEPT !.model = TRUE])
                      [] s = "listener" ->
                           Advance(ctor)
         /\ self_expiry' = IF s = "super" THEN ctor.expiry ELSE self_expiry
         /\ hook' = IF s = "listener" THEN "registered" ELSE hook
    /\ UNCHANGED <<now, coll, indexes, task, got, hist, lastOp, runs, raised>>

\* ctor once __init__(httponly=True, expiry=e) has returned.
Constructed(e) ==
    [step |-> Len(CtorSteps) + 1, state |-> "done", httponly |-> "True",
     expiry |-> e, motor |-> TRUE, warned |-> Warns("True"),
     base |-> BaseHttponly("True"), model |-> TRUE, error |-> ""]

\* raised when no call has failed.
NoError == [call |-> "", error |-> ""]

\* ------------------------------------------------------------------ Init
\* The state at the call of __init__, before its first statement.
CtorInit ==
    /\ self_expiry = None
    /\ now = 0
    /\ coll = << >>
    /\ indexes = {}
    /\ hook = "unregistered"
    /\ task = [t \in Tasks |-> IdleTask]
    /\ got = NoGot
    /\ hist = [t \in Tasks |-> NoHist]
    /\ lastOp = NoOp
    /\ ctor \in {NewCtor(h, e, m) : h \in HttponlyArgs, e \in ExpiryArgs, m \in BOOLEAN}
    /\ runs = 0
    /\ raised = NoError

\* The state once __init__ has returned, with the default httponly.
Init ==
    /\ self_expiry \in ExpiryArgs
    /\ ctor = Constructed(self_expiry)
    /\ runs = 0
    /\ raised = NoError
    /\ now = 0
    /\ coll = << >>
    /\ indexes = {}
    /\ hook = "registered"
    /\ task = [t \in Tasks |-> IdleTask]
    /\ got = NoGot
    /\ hist = [t \in Tasks |-> NoHist]
    /\ lastOp = NoOp

\* The clock advances.
Tick ==
    /\ now < MaxTime
    /\ now' = now + 1
    /\ UNCHANGED <<ctor, runs, raised, self_expiry, coll, indexes, hook, task, got, hist, lastOp>>

\* ------------------------------------------------- apply_session_indexes
\* create_index creates the index if it is absent.
create_index(ixs, ix) == ixs \cup {ix}

\* A variant of create_index that refuses a field that is indexed already.
IndexConflictIfExists(ixs, ix) == \E j \in ixs : j.field = ix.field

\* The engine refuses create_index when the field is already indexed with
\* other options; the same index asked for again is left as it is.
IndexConflict(ixs, ix) == \E j \in ixs : j.field = ix.field /\ j # ix

\* A variant of line 113 that swallows the engine's error (try/except: pass)
\* and goes on to line 114.
OnSidFailureGoOn == "sid_created"

\* Line 113 is awaited outside any try: an error of the first create_index
\* leaves the listener, and line 114 is not reached.
OnSidFailure == "sid_failed"

\* Line 113: await _SessionModel.create_index(self.sid_field), run when
\* the server fires after_server_start at the registered listener.
apply_session_indexes_sid ==
    /\ hook = "registered"
    /\ IF IndexConflict(indexes, SidIndex)
       THEN hook' = "conflict" /\ UNCHANGED indexes
       ELSE /\ indexes' = create_index(indexes, SidIndex)
            /\ hook' = "sid_created"
    /\ UNCHANGED <<ctor, runs, raised, self_expiry, now, coll, task, got, hist, lastOp>>

\* Line 114: await _SessionModel.create_index(self.expiry_field,
\*                                            expireAfterSeconds=0)
apply_session_indexes_expiry ==
    /\ hook = "sid_created"
    /\ IF IndexConflict(indexes, TTLIndex)
       THEN hook' = "conflict" /\ UNCHANGED <<indexes, runs>>
       ELSE /\ indexes' = create_index(indexes, TTLIndex)
            /\ hook' = "done"
            /\ runs' = runs + 1
    /\ UNCHANGED <<ctor, raised, self_expiry, now, coll, task, got, hist, lastOp>>

\* Line 113, the engine failing the request: nothing is created.
apply_session_indexes_sid_fail ==
    /\ hook = "registered"
    /\ hook' = OnSidFailure
    /\ UNCHANGED <<ctor, runs, raised, self_expiry, now, coll, indexes, task, got, hist, lastOp>>

\* Line 114, the engine failing the request: nothing is created.
apply_session_indexes_expiry_fail ==
    /\ hook = "sid_created"
    /\ hook' = "expiry_failed"
    /\ UNCHANGED <<ctor, runs, raised, self_expiry, now, coll, indexes, task, got, hist, lastOp>>

\* The server is started again: the listener, registered once by line 102,
\* is due again.
after_server_start ==
    /\ hook \in {"done", "sid_failed", "expiry_failed"}
    /\ runs < MaxRuns
    /\ hook' = "registered"
    /\ UNCHANGED <<ctor, runs, raised, self_expiry, now, coll, indexes, task, got, hist, lastOp>>

\* ------------------------------------------------------------ _get_value
\* A variant of line 118 that tests the payload for truth instead of the
\* document (value.get(self.data_field) or None).
GetReturnFalsy(i) == IF i = 0 \/ coll[i].data = "" THEN None ELSE coll[i].data

\* A variant of line 118 that also tests the document's expiry against the
\* clock and hides a document whose expiry has passed.
GetReturnFresh(i) == IF i = 0 \/ coll[i].expiry <= now THEN None ELSE coll[i].data

\* Line 118: value.get(self.data_field) if value else None, for the
\* document at position i (0: find_one returned nothing).
GetReturn(i) == IF i = 0 THEN None ELSE coll[i].data

\* What _get_value(prefix, k) returns in the current state.
GetValue(k) == GetReturn(FirstMatch(k))

\* A variant of line 117 that renews the expiry of the document it reads
\* (find_one_and_update in place of find_one: sliding expiration).
find_one_and_touch(c, i) ==
    IF i = 0 THEN c ELSE [c EXCEPT ![i].expiry = now + self_expiry]

\* Line 117: what find_one leaves in the collection c after it has read the
\* document at position i (0: none matched).  It is a pure read.
find_one(c, i) == c

\* Lines 116-118.  find_one is one read of the engine; nothing is written.
get_value(k) ==
    /\ got' = IF k = watch THEN [called |-> TRUE, ret |-> GetValue(k)] ELSE got
    /\ coll' = find_one(coll, FirstMatch(k))
    /\ UNCHANGED <<ctor, runs, raised, self_expiry, now, indexes, hook, task, hist, lastOp>>

\* ----------------------------------------------------------- _delete_key
\* A variant of line 121 whose filter is empty (delete_one({})): the first
\* document of the collection is removed, whatever its sid.
delete_one_any(c, i) == IF Len(c) = 0 THEN c ELSE RemoveAt(c, 1)

\* delete_one({sid: k}): removes the first matching document, if any.
delete_one(c, i) == IF i = 0 THEN c ELSE RemoveAt(c, i)

\* Lines 120-121.
delete_key(k) ==
    /\ coll' = delete_one(coll, FirstMatch(k))
    /\ IF k = watch
       THEN /\ lastOp' = [NoOp EXCEPT !.op = "delete"]
            /\ hist' = Disturb("")
            /\ got' = NoGot
       ELSE UNCHANGED <<lastOp, hist, got>>
    /\ UNCHANGED <<ctor, runs, raised, self_expiry, now, indexes, hook, task>>

\* ------------------------------------------------------------ _set_value
\* A variant of line 124 that leaves the TTL out.
ComputeExpiryNoTTL(clock, ttl) == clock

\* Line 124: expiry = datetime.utcnow() + timedelta(seconds=self.expiry)
ComputeExpiry(clock, ttl) == clock + ttl

\* Lines 124-125: the expiry is computed, then replace_one is awaited.
set_value(t, k, d) ==
    /\ task[t].pc = "idle"
    /\ task' = [task EXCEPT ![t] = [pc |-> "replace_one", key |-> k, data |-> d,
                                    expiry |-> ComputeExpiry(now, self_expiry)]]
    /\ hist' = [u \in Tasks |->
                  IF u = t
                  THEN [read |-> now,
                        seq |-> (k = watch /\ lastOp.op = "set"),
                        overlap |-> (k = watch /\ InFlight(k) # {})]
                  ELSE IF k = watch /\ u \in InFlight(k)
                       THEN [hist[u] EXCEPT !.overlap = TRUE]
                       ELSE hist[u]]
    /\ UNCHANGED <<ctor, runs, raised, self_expiry, now, coll, indexes, hook, got, lastOp>>

\* The document lines 127-131 hand to replace_one.
Replacement(t) == Doc(task[t].key, task[t].expiry, task[t].data)

\* A variant of lines 125-133 that inserts although a document matches
\* (insert_one in place of replace_one).
ReplaceAtInsert(c, i, doc) == Append(c, doc)

\* replace_one on a matching document: the whole document at position i is
\* replaced by the one handed in; its place in storage order is kept.
ReplaceAt(c, i, doc) == [c EXCEPT ![i] = doc]

\* The write of t's replace_one took effect.
SetDone(t, matched) ==
    /\ task' = [task EXCEPT ![t] = IdleTask]
    /\ IF task[t].key = watch
       THEN /\ lastOp' = [op |-> "set", doc |-> Replacement(t),
                          read |-> hist[t].read,
                          seq |-> hist[t].seq, overlap |-> hist[t].overlap,
                          matched |-> matched]
            /\ hist' = Disturb(t)
            /\ got' = NoGot
       ELSE /\ hist' = [hist EXCEPT ![t] = NoHist]
            /\ UNCHANGED <<lastOp, got>>

\* Lines 125-133, the engine's query phase of replace_one(upsert=True):
\* a matching document is replaced at once; with no match the engine goes
\* on to insert, and the collection has no unique index on sid (line 113
\* creates a plain one), so nothing stops another upsert in between.
replace_one(t) ==
    /\ task[t].pc = "replace_one"
    /\ IF FirstMatch(task[t].key) # 0
       THEN /\ coll' = ReplaceAt(coll, FirstMatch(task[t].key), Replacement(t))
            /\ SetDone(t, TRUE)
       ELSE /\ task' = [task EXCEPT ![t].pc = "upsert_insert"]
            /\ UNCHANGED <<coll, hist, lastOp, got>>
    /\ UNCHANGED <<ctor, runs, raised, self_expiry, now, indexes, hook>>

\* The engine's insert phase of an upsert that matched nothing.
upsert_insert(t) ==
    /\ task[t].pc = "upsert_insert"
    /\ Len(coll) < MaxDocs
    /\ coll' = Append(coll, Replacement(t))
    /\ SetDone(t, FALSE)
    /\ UNCHANGED <<ctor, runs, raised, self_expiry, now, indexes, hook>>

\* ----------------------------------------------------------- TTL monitor
\* The engine's background pass removes one reclaimable document of key k.
ttl_reclaim(k) ==
    /\ \E i \in Matching(k) :
          /\ Reclaimable(coll[i])
          /\ coll' = RemoveAt(coll, i)
    /\ IF k = watch
       THEN /\ lastOp' = [NoOp EXCEPT !.op = "reclaim"]
            /\ hist' = Disturb("")
            /\ got' = NoGot
       ELSE UNCHANGED <<lastOp, hist, got>>
    /\ UNCHANGED <<ctor, runs, raised, self_expiry, now, indexes, hook, task>>

\* ------------------------------------------------------------------ Next
Next ==
    \/ Tick
    \/ apply_session_indexes_sid
    \/ apply_session_indexes_expiry
    \/ \E k \in Keys : get_value(k)
    \/ \E k \in Keys : delete_key(k)
    \/ \E k \in Keys : \E t \in Writers(k), d \in Payloads(k) : set_value(t, k, d)
    \/ \E t \in Tasks : replace_one(t)
    \/ \E t \in Tasks : upsert_insert(t)
    \/ \E k \in Keys : ttl_reclaim(k)

Spec == Init /\ [][Next]_vars

\* ------------------------------------------------------ engine failures
\* A variant of _set_value that, on an error of replace_one, keeps the
\* request for another attempt (a retry loop around line 125).
AfterFailureRetry(t) == [task[t] EXCEPT !.pc = "replace_one"]

\* Lines 125-133: replace_one is awaited once, outside any try or loop; its
\* error ends the coroutine.
AfterFailure(t) == IdleTask

\* Lines 116-121, 125: no except clause; the engine's error is the error
\* of the call.
Propagate(call, e) == [call |-> call, error |-> e]

\* Line 117, the engine failing find_one with error e.
get_value_fail(k, e) ==
    /\ raised' = Propagate("get", e)
    /\ UNCHANGED <<ctor, runs, self_expiry, now, coll, indexes, hook, task, got, hist, lastOp>>

\* Line 121, the engine failing delete_one with error e.
delete_key_fail(k, e) ==
    /\ raised' = Propagate("delete", e)
    /\ UNCHANGED <<ctor, runs, self_expiry, now, coll, indexes, hook, task, got, hist, lastOp>>

\* Lines 125-133, the engine failing replace_one with error e, in its query
\* phase or in the insert phase of the upsert.
replace_one_fail(t, e) ==
    /\ task[t].pc # "idle"
    /\ task' = [task EXCEPT ![t] = AfterFailure(t)]
    /\ hist' = [hist EXCEPT ![t] = NoHist]
    /\ raised' = Propagate("set", e)
    /\ UNCHANGED <<ctor, runs, self_expiry, now, coll, indexes, hook, got, lastOp>>

FailNext ==
    \/ \E k \in Keys, e \in Errors : get_value_fail(k, e)
    \/ \E k \in Keys, e \in Errors : delete_key_fail(k, e)
    \/ \E t \in Tasks, e \in Errors : replace_one_fail(t, e)

\* The interface in service, with an engine that may fail any request.
FailSpec == Init /\ [][Next \/ FailNext]_vars

\* --------------------------------------------------- construction, startup
LifecycleNext ==
    \/ init_step
    \/ apply_session_indexes_sid
    \/ apply_session_indexes_expiry
    \/ apply_session_indexes_sid_fail
    \/ apply_session_indexes_expiry_fail
    \/ after_server_start

\* __init__ from its call on, then the server's starts, with an engine that
\* may fail create_index.
LifecycleSpec == CtorInit /\ [][LifecycleNext]_vars

\* The engine's TTL monitor runs periodically for as long as the engine is
\* up: a removal that stays possible is eventually made.  Only the monitor's
\* work on watch is assumed fair; nothing is assumed of the coroutines.
FairSpec == Spec /\ WF_vars(ttl_reclaim(watch))

\* ------------------------------------------------------------ properties
Range(s) == {s[i] : i \in 1..Len(s)}

\* The TTL index exists (the listener has passed line 114).
HasTTLIndex == \E ix \in indexes : ix.ttl /\ ix.field = expiry_field

\* C1: round-trip identity.  While the last mutation of the key that took
\* effect is a successful set(key, data) (no later set, delete or TTL
\* reclamation of the key), every get(key) returns exactly data.
C1_RoundTrip ==
    (lastOp.op = "set" /\ got.called) => got.ret = lastOp.doc.data

C3_DeleteThenGet ==
    (lastOp.op = "delete" /\ InFlight(watch) = {} /\ got.called) => got.ret = None

\* C4: at most one record exists per sid.
C4_OneRecordPerSid ==
    \A k \in Keys : Cardinality(Matching(k)) <= 1

\* C5: when two sets of one key have overlapped and both have completed,
\* the key has exactly one record, and it is the record (data and expiry
\* of the same call) of the set whose write took effect last.
C5_LastWriteWins ==
    (lastOp.op = "set" /\ lastOp.overlap /\ InFlight(watch) = {}) =>
        /\ Cardinality(Matching(watch)) = 1
        /\ coll[FirstMatch(watch)] = lastOp.doc

\* The write of t's replace_one takes effect in this step.
WriteOf(t) == task[t].pc # "idle" /\ task'[t].pc = "idle"

\* C6, as claimed: the expiry a successful set stores equals the time its
\* write takes effect plus the configured TTL.
C6_ExpiryFromWriteTime ==
    [][\A t \in Tasks : WriteOf(t) =>
          /\ Replacement(t) \in Range(coll')
          /\ Replacement(t).expiry = now + self_expiry]_vars

\* C6, amended: the expiry a successful set stores equals the clock value
\* the set read when it was called (line 124, before the write was sent)
\* plus the configured TTL, and that clock value is not later than the time
\* the write takes effect; whether the set inserts or replaces the record.
C6_ExpiryFromClockRead ==
    [][\A t \in Tasks : WriteOf(t) =>
          /\ Replacement(t) \in Range(coll')
          /\ Replacement(t).expiry = hist[t].read + self_expiry
          /\ hist[t].read <= now]_vars

\* C6, witness: a set with a positive TTL has replaced a record of the key
\* with its own, and the clock has advanced since the set read it.
C6_Witness ==
    /\ lastOp.op = "set" /\ lastOp.matched
    /\ self_expiry > 0
    /\ lastOp.read < now
    /\ lastOp.doc \in Range(coll)
    /\ lastOp.doc.expiry = lastOp.read + self_expiry

\* C7: the expiry a successful set stores is strictly later than the time
\* at which its write takes effect.
C7_ExpiryInFuture ==
    [][\A t \in Tasks : WriteOf(t) => Replacement(t).expiry > now]_vars

\* C8: eventual expiry.  Once the TTL index exists: when the expiry of the
\* key's records has passed and no set of the key is in flight, then
\* either a further set of the key is called or the key becomes absent;
\* and an absent key stays absent until the insert of a set of that key.
AllExpired(k) ==
    /\ Matching(k) # {}
    /\ \A i \in Matching(k) : coll[i].expiry < now

InsertOf(k) ==
    \E t \in Tasks : /\ task[t].pc = "upsert_insert"
                     /\ task[t].key = k
                     /\ task'[t].pc = "idle"

C8_EventualExpiry ==
    /\ (HasTTLIndex /\ AllExpired(watch) /\ InFlight(watch) = {})
           ~> (Matching(watch) = {} \/ InFlight(watch) # {})
    /\ [][(Matching(watch) = {} /\ Matching(watch)' # {}) => InsertOf(watch)]_vars

\* C8, witness: the TTL monitor has removed the key's last record and a
\* later get has returned absent.
C8_Witness ==
    /\ lastOp.op = "reclaim" /\ Matching(watch) = {}
    /\ got.called /\ got.ret = None

\* C9: delete(key) on a key with no record leaves the store unchanged, and
\* a second delete(key) in a row leaves the store as the first one left it.
C9_DeleteNoRecord ==
    [][\A k \in Keys : delete_key(k) =>
          /\ (Matching(k) = {} => coll' = coll)
          /\ delete_one(coll', FirstMatch(k)') = coll']_vars

\* C10: get(key) returns absent exactly when the key has no record,
\* whatever the last mutation of the key was (none, a delete, a TTL
\* reclamation), and otherwise returns the data field of a record of the
\* key, the empty payload included.
C10_GetResult ==
    got.called =>
        /\ got.ret = None <=> Matching(watch) = {}
        /\ Matching(watch) # {} => got.ret \in {coll[i].data : i \in Matching(watch)}
        /\ Matching(watch) # {} => got.ret = coll[FirstMatch(watch)][data_field]

\* C10, witness: get returned absent for a key whose record was reclaimed.
C10_Witness ==
    /\ got.called /\ got.ret = None
    /\ lastOp.op = "reclaim"

\* C16: get makes no expiry check of its own.  Whenever a record of the key
\* is present when get(key) runs, get returns the data of that record, also
\* when the record's expiry has passed and the engine has not yet reclaimed
\* it: what get returned is the data of the key's first record, whatever
\* that record's expiry is against the clock.
C16_NoExpiryCheckOnGet ==
    (got.called /\ Matching(watch) # {}) =>
        /\ got.ret # None
        /\ got.ret = coll[FirstMatch(watch)].data
        /\ coll[FirstMatch(watch)].expiry <= now => got.ret = coll[FirstMatch(watch)].data

\* A get has returned the data of a record whose expiry has passed and that
\* the engine has not reclaimed.
C16_Witness ==
    /\ got.called
    /\ Matching(watch) # {}
    /\ coll[FirstMatch(watch)].expiry < now
    /\ got.ret = coll[FirstMatch(watch)].data
    /\ got.ret = "a"

\* The records of key k in collection c, in storage order.
RecordsOf(c, k) == SelectSeq(c, LAMBDA d : d.sid = k)

\* C17: get is read-only.  A get(key) leaves every record of the collection
\* unchanged, whether or not key has a record; in particular it does not
\* renew the expiry of the record it reads.  It leaves the indexes and the
\* sets in flight alone as well.
C17_GetReadOnly ==
    [][\A k \in Keys : get_value(k) =>
          /\ coll' = coll
          /\ indexes' = indexes
          /\ task' = task]_vars

\* A get has read a record whose expiry is still the one its set gave it,
\* short of the clock plus the TTL.
C17_Witness ==
    /\ got.called
    /\ lastOp.op = "set"
    /\ got.ret = lastOp.doc.data
    /\ coll[FirstMatch(watch)] = lastOp.doc
    /\ lastOp.doc.expiry < now + self_expiry

\* A step of the engine that carries out a write of key k: a delete_one, or
\* either phase of a replace_one.
WriteStepOn(k) ==
    \/ delete_key(k)
    \/ \E t \in Tasks : task[t].key = k /\ (replace_one(t) \/ upsert_insert(t))

\* C18: key isolation.  A set(key, data) or delete(key) leaves the records
\* of every other key as they were (presence, data and expiry), in every
\* interleaving with the operations on those keys: a step that changes the
\* records of a key k2 is no step of a set or delete of another key.
C18_KeyIsolation ==
    [][\A k2 \in Keys :
          RecordsOf(coll', k2) # RecordsOf(coll, k2) =>
             ~ \E k \in Keys \ {k2} :
                  (WriteStepOn(k) \/ \E t \in Tasks, d \in Data : set_value(t, k, d))]_vars

\* A delete of watch took effect while another key has a record.
C18_Witness ==
    /\ lastOp.op = "delete"
    /\ Matching(watch) = {}
    /\ \E k2 \in Keys \ {watch} : Matching(k2) # {}
\* C11: storage failure pass-through.  When the engine fails a find_one, a
\* replace_one or a delete_one with an error, the get, set or delete that
\* issued it raises that same error; the request is not issued again (the
\* coroutine is over); and the call writes nothing, so the collection is as
\* the engine left it.
C11_FailurePassThrough ==
    [][/\ \A k \in Keys, e \in Errors : get_value_fail(k, e) =>
             /\ raised' = [call |-> "get", error |-> e]
             /\ coll' = coll /\ got' = got /\ task' = task
       /\ \A k \in Keys, e \in Errors : delete_key_fail(k, e) =>
             /\ raised' = [call |-> "delete", error |-> e]
             /\ coll' = coll /\ task' = task
       /\ \A t \in Tasks, e \in Errors : replace_one_fail(t, e) =>
             /\ raised' = [call |-> "set", error |-> e]
             /\ coll' = coll
             /\ task'[t].pc = "idle"]_vars

\* A set has failed with the engine's error, no coroutine is left in
\* flight, and the collection holds nothing.
C11_Witness ==
    /\ raised.call = "set"
    /\ raised.error \in Errors
    /\ \A t \in Tasks : task[t].pc = "idle"
    /\ coll = << >>
    /\ lastOp.op = "none"

\* C12: index setup is idempotent.  A run of apply_session_indexes never
\* fails because an index exists already, and once a run has completed (the
\* first or a later one) the collection has exactly two indexes: a plain one
\* on sid and a TTL index on expiry with expireAfterSeconds = 0.
C12_IndexSetupIdempotent ==
    /\ hook # "conflict"
    /\ (hook = "done" \/ runs >= 1) =>
          indexes = {[field |-> "sid", ttl |-> FALSE, expireAfterSeconds |-> 0],
                     [field |-> "expiry", ttl |-> TRUE, expireAfterSeconds |-> 0]}

\* The listener has run to completion twice.
C12_Witness ==
    /\ hook = "done"
    /\ runs = 2
    /\ Cardinality(indexes) = 2

\* __init__ has passed its statement s.
Passed(s) == \E i \in 1..(ctor.step - 1) : CtorSteps[i] = s

\* C13: httponly is forced.  Whatever the caller passes as httponly, the
\* base interface is initialised with True; the DeprecationWarning is
\* emitted exactly when the caller's value is not the object True; and the
\* warning does not stop construction.
C13_HttponlyForced ==
    /\ Passed("super") => ctor.base = "True"
    /\ ~Passed("super") => ctor.base = "unset"
    /\ Passed("warn") => (ctor.warned <=> ctor.httponly # "True")
    /\ ~Passed("warn") => ~ctor.warned
    /\ ctor.warned => ctor.state # "raised"

\* __init__(httponly=1) has returned: it warned and forwarded True.
C13_Witness ==
    /\ ctor.state = "done"
    /\ ctor.httponly = "1"
    /\ ctor.warned
    /\ ctor.base = "True"

\* C14: the optional dependency is gated.  When sanic_motor cannot be
\* imported, __init__ raises RuntimeError before the base interface is
\* initialised, before self.SessionModel is assigned and before a listener
\* is registered on the app: nothing of the interface or the app is
\* changed, at the failure or at any time before it.
C14_ImportGate ==
    /\ ctor.state = "raised" => (~ctor.motor /\ ctor.error = "RuntimeError")
    /\ ~ctor.motor =>
          /\ ctor.state # "done"
          /\ ctor.base = "unset"
          /\ self_expiry = None
          /\ ~ctor.model
          /\ hook = "unregistered"
          /\ indexes = {}

\* __init__ has raised for want of sanic_motor.
C14_Witness ==
    /\ ctor.state = "raised"
    /\ ctor.error = "RuntimeError"
    /\ hook = "unregistered"

\* C15: startup ordering.  __init__ creates no index: the indexes change
\* only after __init__ has returned, in a run of the listener.  The TTL
\* index is created only once the sid index exists and line 113 has
\* returned.  When the creation of the sid index fails, the run is over:
\* nothing is created until the server starts again.
C15_StartupOrdering ==
    /\ [](hook = "unregistered" => indexes = {})
    /\ [](TTLIndex \in indexes => SidIndex \in indexes)
    /\ []((hook = "sid_failed" /\ runs = 0) => TTLIndex \notin indexes)
    /\ [][/\ indexes' # indexes =>
               (ctor.state = "done" /\ hook \in {"registered", "sid_created"})
          /\ (TTLIndex \notin indexes /\ TTLIndex \in indexes') =>
               (SidIndex \in indexes /\ hook = "sid_created")
          /\ hook = "sid_failed" =>
               (indexes' = indexes /\ hook' \in {"sid_failed", "registered"})]_vars

\* The creation of the sid index has failed in the first run and no index
\* exists.
C15_Witness ==
    /\ ctor.state = "done"
    /\ hook = "sid_failed"
    /\ runs = 0
    /\ indexes = {}
====
